---- MODULE Spec2Model ----
(***************************************************************************)
(* A model of module/config/db.py: the argument database (SchemaStore),    *)
(* its migration from the Schema Definition (update_db), the projection    *)
(* of instance configurations (update_config) and the upsert API.          *)
(*                                                                         *)
(* Representation.                                                         *)
(*  - An identifier (func, group, arg, lang, type, a configuration name)   *)
(*    is a TLA+ string; the identifiers of the model contain no '.'.       *)
(*  - A Python str that the code splits, joins or parses (a name, a help   *)
(*    text, an option key, an option label, a string value) is a Text: a   *)
(*    sequence of symbols.  A symbol is the dot ".", a digit, the symbol   *)
(*    DateSym that stands for one ISO-8601 date literal, or a word made    *)
(*    of letters.  '' is the empty sequence.                               *)
(*  - A value is a record [t, s]: t is the Python type ("none", "str",     *)
(*    "int", "float", "time") and s the Text that denotes it.              *)
(*  - A nested mapping func -> group -> arg -> x is a function from the    *)
(*    paths <<func, group, arg>> it holds to x.                            *)
(***************************************************************************)
EXTENDS Integers, Sequences, FiniteSets, TLC

VARIABLES
    argsFile,     \* the Schema Definition file (args.yaml): a sequence of leaves
    fileDb,       \* the persisted SchemaStore (args_db.yaml): a sequence of rows
    memDb,        \* Database.db, the cached store: [loaded, rows]
    cfgFile,      \* the instance configuration files, by configuration name
    cfgCache,     \* Database._config: configuration name -> mapping (a partial function)
    cfgUpdated,   \* Database._config_updated
    last,         \* the last call: its operation, request, outcome and result
    migrated,     \* some update_db has completed
    nops,         \* the number of calls made
    mOld,         \* _data_merge under test: the prior row
    mArgs,        \* _data_merge under test: the draft row
    mOut,         \* _data_merge under test: the merged row, or NotRun
    configImport, \* the module-level list CONFIG_IMPORT
    codeFile,     \* the generated declarations file: a sequence of lines
    tValue,       \* parse_value under test: the raw value
    tData,        \* parse_value under test: the row
    tOut          \* parse_value under test: the result, or NotRun

vars == <<argsFile, fileDb, memDb, cfgFile, cfgCache, cfgUpdated, last,
          migrated, nops, mOld, mArgs, mOut, configImport, codeFile,
          tValue, tData, tOut>>

sysVars == <<argsFile, fileDb, memDb, cfgFile, cfgCache, cfgUpdated, last,
             migrated, nops, configImport, codeFile>>

mergeVars == <<mOld, mArgs, mOut>>

typingVars == <<tValue, tData, tOut>>

(***************************************************************************)
(* Bounds.                                                                 *)
(***************************************************************************)
\* The number of calls of one run.
MaxOps == 3

(***************************************************************************)
(* Text and values.                                                        *)
(***************************************************************************)
Dot == "."

Digits == {"0", "3", "5"}

\* One ISO-8601 date literal, such as 2024-01-01, as a single symbol.
DateSym == "2024-01-01"

\* One ISO-8601 time of day, without its fraction, as a single symbol.
TimeSym == "T10:00:00"

INFO == "_info"

\* The key of a request or of a draft row that is not there.
NoKey == "<absent>"

\* The value, the text and the option mapping of a key that is not there.
NoValue == [t |-> "absent", s |-> <<>>]

NoText == <<NoKey>>

NoOption == <<[k |-> NoText, label |-> NoText]>>

\* Database.db before its first use, and after update_db deleted it.
NotLoaded == [loaded |-> FALSE, rows |-> <<>>]

NotRun == [run |-> FALSE]

NoneV == [t |-> "none", s |-> <<>>]

StrV(s) == [t |-> "str", s |-> s]

IntV(s) == [t |-> "int", s |-> s]

FloatV(s) == [t |-> "float", s |-> s]

TimeV(s) == [t |-> "time", s |-> s]

\* '.' in value
HasDot(s) == \E i \in 1..Len(s) : s[i] = Dot

\* a.b : the texts a and b joined by a dot
Join(a, b) == a \o <<Dot>> \o b

RECURSIVE StripZeros(_)
\* The digits of an integer without its leading zeros (int('03') == 3).
StripZeros(s) ==
    IF Len(s) > 1 /\ s[1] = "0" THEN StripZeros(Tail(s)) ELSE s

RECURSIVE StripTrailingZeros(_)
\* The digits of a fraction without its trailing zeros (float('3.50') == 3.5).
StripTrailingZeros(s) ==
    IF Len(s) > 1 /\ s[Len(s)] = "0"
    THEN StripTrailingZeros(SubSeq(s, 1, Len(s) - 1))
    ELSE s

\* int(s) succeeds
IsIntText(s) == Len(s) > 0 /\ \A i \in 1..Len(s) : s[i] \in Digits

\* float(s) succeeds, for an s that holds a '.'
IsFloatText(s) ==
    /\ Cardinality({i \in 1..Len(s) : s[i] = Dot}) = 1
    /\ \E i \in 1..Len(s) : s[i] \in Digits
    /\ \A i \in 1..Len(s) : s[i] \in Digits \cup {Dot}

\* The float that float(s) returns, as its normal decimal text.
FloatNorm(s) ==
    LET d == CHOOSE i \in 1..Len(s) : s[i] = Dot
        ip == SubSeq(s, 1, d - 1)
        fp == SubSeq(s, d + 1, Len(s))
    IN  StripZeros(IF ip = <<>> THEN <<"0">> ELSE ip) \o <<Dot>>
          \o StripTrailingZeros(IF fp = <<>> THEN <<"0">> ELSE fp)

\* datetime.fromisoformat(s) succeeds: a date, a date and a time, or a date
\* and a time with a fraction of three digits
IsIsoText(s) ==
    \/ s = <<DateSym>>
    \/ s = <<DateSym, TimeSym>>
    \/ /\ Len(s) = 6
       /\ SubSeq(s, 1, 3) = <<DateSym, TimeSym, Dot>>
       /\ \A i \in 4..6 : s[i] \in Digits

\* The str branch of parse_value with the float parse tried on every string.
ParseStrFloatFirst(s) ==
    IF s = <<>> THEN NoneV
    ELSE IF IsIntText(s) THEN FloatV(StripZeros(s) \o <<Dot, "0">>)
    ELSE IF HasDot(s) /\ IsFloatText(s) THEN FloatV(FloatNorm(s))
    ELSE IF IsIsoText(s) THEN TimeV(s)
    ELSE StrV(s)

\* The str branch of parse_value.
parse_str(s) ==
    IF s = <<>> THEN NoneV
    ELSE IF HasDot(s) /\ IsFloatText(s) THEN FloatV(FloatNorm(s))
    ELSE IF ~HasDot(s) /\ IsIntText(s) THEN IntV(StripZeros(s))
    ELSE IF IsIsoText(s) THEN TimeV(s)
    ELSE StrV(s)

\* option keys of a stored row
OptionKeys(option) == {option[i].k : i \in 1..Len(option)}

\* value in option: the option keys of the model are strs
InOption(value, option) == value.t = "str" /\ value.s \in OptionKeys(option)

\* parse_value(value, data)
parse_value(value, data) ==
    IF data.option # <<>> /\ ~InOption(value, data.option) THEN data.value
    ELSE IF value.t = "str" THEN parse_str(value.s)
    ELSE value

(***************************************************************************)
(* Paths and the nested-mapping helpers of module.config.utils.            *)
(***************************************************************************)
RECURSIVE Split(_)
\* s.split('.')
Split(s) ==
    IF ~HasDot(s) THEN <<s>>
    ELSE LET d == CHOOSE i \in 1..Len(s) :
                     s[i] = Dot /\ \A j \in 1..(i - 1) : s[j] # Dot
         IN  <<SubSeq(s, 1, d - 1)>> \o Split(SubSeq(s, d + 1, Len(s)))

\* data_to_path(data): '<func>.<group>.<arg>'
data_to_path(data) == <<data.func, Dot, data.group, Dot, data.arg>>

\* The keys deep_get and deep_set walk for data_to_path(data).
PathOf(data) == <<data.func, data.group, data.arg>>

\* old.get(attr, ''): old is a row, or the empty dict {} (the empty function)
OldGet(old, attr) == IF attr \in DOMAIN old THEN old[attr] ELSE <<>>

\* deep_get(old, f'option.{k}', default=default): the path is split on '.',
\* a key that is absent gives the default, and so does a label (a str, not a
\* mapping) under which the path goes on.
deep_get_option(old, k, default) ==
    LET keys == Split(k)
        option == IF "option" \in DOMAIN old THEN old["option"] ELSE <<>>
        hit == {i \in 1..Len(option) : option[i].k = keys[1]}
    IN  IF hit = {} THEN default
        ELSE IF Len(keys) > 1 THEN default
        ELSE option[CHOOSE i \in hit : TRUE].label

(***************************************************************************)
(* The merge: Database._data_iter and Database._data_merge.                *)
(***************************************************************************)
\* Database.lang
Langs == <<"zh-CN">>

RowKey(r) == <<r.func, r.group, r.arg, r.lang>>

\* info(raw) without the test of the visited set: every leaf yields its two
\* info rows again.
InfoUnvisited(raw, visited) ==
    LET c1 == raw
        c2 == [c1 EXCEPT !.arg = INFO]
        c3 == [c2 EXCEPT !.group = INFO]
    IN  [out |-> <<c3, c2, c1>>,
         visited |-> visited \cup {RowKey(c1), RowKey(c2), RowKey(c3)}]

\* info(raw) of _data_iter: the leaf row, its group's info row and its
\* function's info row, those not visited yet, in reversed order.
info(raw, visited) ==
    LET c1 == raw
        c2 == [c1 EXCEPT !.arg = INFO]
        c3 == [c2 EXCEPT !.group = INFO]
        o1 == IF RowKey(c1) \in visited THEN <<>> ELSE <<c1>>
        v1 == visited \cup {RowKey(c1)}
        o2 == IF RowKey(c2) \in v1 THEN <<>> ELSE <<c2>>
        v2 == v1 \cup {RowKey(c2)}
        o3 == IF RowKey(c3) \in v2 THEN <<>> ELSE <<c3>>
        v3 == v2 \cup {RowKey(c3)}
    IN  [out |-> o3 \o o2 \o o1, visited |-> v3]

\* The dict `data` that _data_iter builds for a leaf and a language.
RawRow(leaf, lang) ==
    [func |-> leaf.func, group |-> leaf.group, arg |-> leaf.arg, lang |-> lang,
     value |-> leaf.value, type |-> leaf.type, option |-> leaf.option]

RECURSIVE RawRows(_)
\* The leaves of the definition, each in every language, in walk order.
RawRows(args) ==
    IF args = <<>> THEN <<>>
    ELSE [i \in 1..Len(Langs) |-> RawRow(Head(args), Langs[i])] \o RawRows(Tail(args))

RECURSIVE IterFrom(_, _)
IterFrom(raws, visited) ==
    IF raws = <<>> THEN <<>>
    ELSE LET r == info(Head(raws), visited)
         IN  r.out \o IterFrom(Tail(raws), r.visited)

\* Database._data_iter(args): the draft rows, in the order they are yielded
_data_iter(args) == IterFrom(RawRows(args), {})

\* _data_merge that clears type, value and option on the rows whose group is
\* '_info' only.
DataMergeClearsFuncInfoOnly(old, args) ==
    LET key == data_to_path(args)
        sticky(attr) ==
            LET v == OldGet(old, attr)
            IN  IF v # <<>> THEN v ELSE Join(key, <<attr>>)
        option ==
            [i \in 1..Len(args.option) |->
                [k |-> args.option[i],
                 label |-> deep_get_option(old, args.option[i], args.option[i])]]
        isInfo == args.group = INFO
    IN  [func |-> args.func, group |-> args.group, arg |-> args.arg,
         lang |-> args.lang,
         name |-> sticky("name"), help |-> sticky("help"),
         type |-> IF isInfo THEN ""
                  ELSE IF args.type = NoKey THEN "input" ELSE args.type,
         value |-> IF isInfo THEN StrV(<<>>) ELSE args.value,
         option |-> IF isInfo THEN <<>> ELSE option,
         config |-> NoKey]

\* _data_merge with the name and the help taken from the placeholder whenever
\* the draft row's value differs from the prior row's.
DataMergeResetsLabels(old, args) ==
    LET key == data_to_path(args)
        changed == "value" \in DOMAIN old /\ old["value"] # args.value
        sticky(attr) ==
            LET v == OldGet(old, attr)
            IN  IF v # <<>> /\ ~changed THEN v ELSE Join(key, <<attr>>)
        option ==
            [i \in 1..Len(args.option) |->
                [k |-> args.option[i],
                 label |-> deep_get_option(old, args.option[i], args.option[i])]]
        isInfo == args.arg = INFO
    IN  [func |-> args.func, group |-> args.group, arg |-> args.arg,
         lang |-> args.lang,
         name |-> sticky("name"), help |-> sticky("help"),
         type |-> IF isInfo THEN ""
                  ELSE IF args.type = NoKey THEN "input" ELSE args.type,
         value |-> IF isInfo THEN StrV(<<>>) ELSE args.value,
         option |-> IF isInfo THEN <<>> ELSE option,
         config |-> NoKey]

\* Database._data_merge(old, args)
_data_merge(old, args) ==
    LET key == data_to_path(args)
        sticky(attr) ==
            LET v == OldGet(old, attr)
            IN  IF v # <<>> THEN v ELSE Join(key, <<attr>>)
        option ==
            [i \in 1..Len(args.option) |->
                [k |-> args.option[i],
                 label |-> deep_get_option(old, args.option[i], args.option[i])]]
        isInfo == args.arg = INFO
    IN  [func |-> args.func, group |-> args.group, arg |-> args.arg,
         lang |-> args.lang,
         name |-> sticky("name"), help |-> sticky("help"),
         type |-> IF isInfo THEN ""
                  ELSE IF args.type = NoKey THEN "input" ELSE args.type,
         value |-> IF isInfo THEN StrV(<<>>) ELSE args.value,
         option |-> IF isInfo THEN <<>> ELSE option,
         config |-> NoKey]

\* The search of update_db without the condition on arg.
SearchOldAnyArg(old, data) ==
    LET hit == {i \in 1..Len(old) :
                   /\ old[i].func = data.func
                   /\ old[i].group = data.group
                   /\ old[i].lang = data.lang}
    IN  IF hit = {} THEN <<>>
        ELSE old[CHOOSE i \in hit : \A j \in hit : i <= j]

\* old.search(func & group & arg & lang) of update_db, then res[0] or {}
SearchOld(old, data) ==
    LET hit == {i \in 1..Len(old) : RowKey(old[i]) = RowKey(data)}
    IN  IF hit = {} THEN <<>>
        ELSE old[CHOOSE i \in hit : \A j \in hit : i <= j]

\* The walk of update_db as a patch of the prior store: the rows of the prior
\* store that the definition no longer derives are kept.
MergeWalkKeepsPrior(old, args) ==
    LET drafts == _data_iter(args)
        kept == {i \in 1..Len(old) :
                    \A j \in 1..Len(drafts) : RowKey(drafts[j]) # RowKey(old[i])}
        F[i \in 0..Len(old)] ==
            IF i = 0 THEN <<>>
            ELSE IF i \in kept THEN Append(F[i - 1], old[i]) ELSE F[i - 1]
    IN  [i \in 1..Len(drafts) |-> _data_merge(SearchOld(old, drafts[i]), drafts[i])]
            \o F[Len(old)]

\* The rows update_db inserts into the new store, in insertion order.
MergeWalk(old, args) ==
    LET drafts == _data_iter(args)
    IN  [i \in 1..Len(drafts) |-> _data_merge(SearchOld(old, drafts[i]), drafts[i])]

(***************************************************************************)
(* The stores.  A call works on a record S of the mutable state:           *)
(* fileDb, memDb, cfgFile, cfgCache, cfgUpdated.  An operator that models  *)
(* a method returns [ok, S, ret]: whether it returned (or raised), the     *)
(* state it left and what it returned.                                     *)
(***************************************************************************)
ConfigNames == {"template", "alas"}

\* 'Alas.DropRecord.AzurStatsID'
StatsPath == <<"Alas", "DropRecord", "AzurStatsID">>

\* What random_id() may return.
RandomIds == {StrV(<<"idA">>), StrV(<<"idB">>)}

EmptyMap == [p \in {} |-> NoneV]

\* deep_set(m, keys=p, value=v) on a nested mapping
MapSet(m, p, v) == [q \in DOMAIN m \cup {p} |-> IF q = p THEN v ELSE m[q]]

\* deep_get(m, keys=p, default=d) on a nested mapping
MapGet(m, p, d) == IF p \in DOMAIN m THEN m[p] ELSE d

\* deep_default(m, keys=p, value=v): set only when absent
MapDefault(m, p, v) == IF p \in DOMAIN m THEN m ELSE MapSet(m, p, v)

\* Database.db: the cached_property loads the file on first use
LoadDb(S) ==
    [S EXCEPT !.memDb = IF @.loaded THEN @ ELSE [loaded |-> TRUE, rows |-> S.fileDb]]

\* The rows of a store that a query over the truthy fields of a request
\* matches (request_to_query), in store order.
Matches(row, request) ==
    /\ request.func # NoKey => row.func = request.func
    /\ request.group # NoKey => row.group = request.group
    /\ request.arg # NoKey => row.arg = request.arg
    /\ request.lang # NoKey => row.lang = request.lang

\* The documents of a store, as a set.
Documents(db) == {db[i] : i \in 1..Len(db)}

\* db.search(cond): the rows of the store that are among the documents the
\* condition holds of, in store order
Search(db, matching) ==
    LET F[i \in 0..Len(db)] ==
            IF i = 0 THEN <<>>
            ELSE IF db[i] \in matching THEN Append(F[i - 1], db[i]) ELSE F[i - 1]
    IN  F[Len(db)]

\* The response select_db builds: every found row set at its path, a later
\* row of the same path replacing an earlier one.
ByPath(rows) ==
    [p \in {PathOf(rows[i]) : i \in 1..Len(rows)} |->
        rows[CHOOSE i \in 1..Len(rows) :
                /\ PathOf(rows[i]) = p
                /\ \A j \in 1..Len(rows) : PathOf(rows[j]) = p => j <= i]]

\* Database._check_config(data, is_template)
_check_config(data, is_template, rid) ==
    IF is_template THEN MapSet(data, StatsPath, NoneV)
    ELSE MapDefault(data, StatsPath, rid)

IsInfoRow(row) == row.group = INFO \/ row.arg = INFO

\* update_config that reads the instance file without the schema default.
UpdateConfigNoDefault(S, config_name, rid) ==
    LET S1 == LoadDb(S)
        old == S1.cfgFile[config_name]
        arguments == Search(S1.memDb.rows,
                            {r \in Documents(S1.memDb.rows) :
                                r.lang = "zh-CN" /\ ~IsInfoRow(r)})
        rows == ByPath(arguments)
        new == [p \in DOMAIN rows |-> parse_value(MapGet(old, p, NoneV), rows[p])]
        checked == _check_config(new, config_name = "template", rid)
    IN  [ok |-> TRUE,
         S |-> [S1 EXCEPT !.cfgFile[config_name] = checked],
         ret |-> checked]

\* Database.update_config(config_name); rid is what random_id() returns
update_config(S, config_name, rid) ==
    LET S1 == LoadDb(S)
        old == S1.cfgFile[config_name]
        arguments == Search(S1.memDb.rows,
                            {r \in Documents(S1.memDb.rows) :
                                r.lang = "zh-CN" /\ ~IsInfoRow(r)})
        rows == ByPath(arguments)
        new == [p \in DOMAIN rows |->
                   parse_value(MapGet(old, p, rows[p].value), rows[p])]
        checked == _check_config(new, config_name = "template", rid)
    IN  [ok |-> TRUE,
         S |-> [S1 EXCEPT !.cfgFile[config_name] = checked],
         ret |-> checked]

\* Database.config(config_name)
config(S, config_name, rid) ==
    IF config_name \in DOMAIN S.cfgCache
    THEN [ok |-> TRUE, S |-> S, ret |-> S.cfgCache[config_name]]
    ELSE IF config_name \in S.cfgUpdated
    THEN LET data == S.cfgFile[config_name]
         IN  [ok |-> TRUE,
              S |-> [S EXCEPT !.cfgCache = MapSet(@, config_name, data)],
              ret |-> data]
    ELSE LET r == update_config(S, config_name, rid)
         IN  [ok |-> TRUE,
              S |-> [r.S EXCEPT !.cfgUpdated = @ \cup {config_name},
                                !.cfgCache = MapSet(@, config_name, r.ret)],
              ret |-> r.ret]

\* Database.config_clear(config_name)
config_clear(S, config_name) ==
    [S EXCEPT !.cfgCache = [n \in DOMAIN @ \ {config_name} |-> @[n]]]

(***************************************************************************)
(* The selection and upsert API.  A request is a record of its keys; a key *)
(* the caller left out is NoKey, NoValue, NoText or NoOption (request.get  *)
(* gives None, which is falsy).                                            *)
(***************************************************************************)
Request(func, group, arg, lang, value, conf, name, help, option) ==
    [func |-> func, group |-> group, arg |-> arg, lang |-> lang,
     value |-> value, config |-> conf, name |-> name, help |-> help,
     option |-> option]

\* Database.select_db(request)
select_db(S, request) ==
    IF request.func = NoKey /\ request.group = NoKey /\ request.arg = NoKey
    THEN [ok |-> FALSE, S |-> S, ret |-> EmptyMap]
    ELSE LET S1 == LoadDb(S)
         IN  [ok |-> TRUE, S |-> S1,
              ret |-> ByPath(Search(S1.memDb.rows,
                                   {r \in Documents(S1.memDb.rows) :
                                       Matches(r, request)}))]

\* The keys of the path select_config joins: the truthy ones among func,
\* group and arg.  A path of the instance configuration lies under it.
Under(p, request) ==
    /\ p[1] = request.func
    /\ IF request.group # NoKey
       THEN p[2] = request.group /\ (request.arg # NoKey => p[3] = request.arg)
       ELSE request.arg # NoKey => p[2] = request.arg

\* Database.select_config(request).  The response holds the rows select_db
\* found and, under the path of the request, what the instance configuration
\* holds there: [live |-> value] at every path of that subtree, or
\* [live |-> None] at the path itself when the configuration has nothing there.
select_config(S, request, rid) ==
    IF request.func = NoKey \/ request.config = NoKey
    THEN [ok |-> FALSE, S |-> S, ret |-> EmptyMap]
    ELSE LET response == select_db(S, request)
             conf == config(response.S, request.config, rid)
             sub == {p \in DOMAIN conf.ret : Under(p, request)}
             at == IF sub # {} THEN sub
                   ELSE {<<request.func, request.group, request.arg>>}
             kept == {p \in DOMAIN response.ret : ~Under(p, request)}
         IN  [ok |-> TRUE, S |-> conf.S,
              ret |-> [p \in kept \cup at |->
                          IF p \in sub THEN [live |-> conf.ret[p]]
                          ELSE IF p \in at THEN [live |-> NoneV]
                          ELSE response.ret[p]]]

\* The overlay of select_function without the test for None.
OverlayAll(database, values) ==
    [p \in DOMAIN database \cup DOMAIN values |->
        IF p \in DOMAIN database
        THEN IF p \in DOMAIN values THEN [database[p] EXCEPT !.value = values[p]]
             ELSE database[p]
        ELSE [value |-> values[p]]]

\* The tree select_function returns: the rows of `database` by path, the
\* instance values that are not None set under the `value` key of their path.
Overlay(database, values) ==
    LET live == {p \in DOMAIN values : values[p] # NoneV}
    IN  [p \in DOMAIN database \cup live |->
            IF p \in DOMAIN database
            THEN IF p \in live THEN [database[p] EXCEPT !.value = values[p]]
                 ELSE database[p]
            ELSE [value |-> values[p]]]

\* Database.select_function(request)
select_function(S, request, rid) ==
    IF request.func = NoKey \/ request.lang = NoKey \/ request.config = NoKey
    THEN [ok |-> FALSE, S |-> S, ret |-> EmptyMap]
    ELSE LET req == Request(request.func, NoKey, NoKey, request.lang, NoValue,
                            request.config, NoText, NoText, NoOption)
             database == select_db(S, req)
             conf == config(database.S, request.config, rid)
             \* select_config: the subtree of the instance configuration at `func`
             sub == {p \in DOMAIN conf.ret : p[1] = request.func}
         IN  IF sub = {}
             \* deep_get gave None, and None has no items()
             THEN [ok |-> FALSE, S |-> conf.S, ret |-> EmptyMap]
             ELSE [ok |-> TRUE, S |-> conf.S,
                   ret |-> Overlay(database.ret, [p \in sub |-> conf.ret[p]])]

\* upsert_config that writes the raw value as it came.
UpsertConfigUntyped(S, request, rid) ==
    IF \/ request.func = NoKey \/ request.group = NoKey
       \/ request.arg = NoKey \/ request.lang = NoKey
       \/ request.value = NoValue \/ request.config = NoKey
    THEN [ok |-> FALSE, S |-> S, ret |-> EmptyMap]
    ELSE LET path == PathOf(request)
             found == select_db(S, request)
         IN  IF path \notin DOMAIN found.ret
             THEN [ok |-> FALSE, S |-> found.S, ret |-> EmptyMap]
             ELSE LET conf == config(found.S, request.config, rid)
                      S2 == [conf.S EXCEPT !.cfgCache[request.config] =
                                                MapSet(@, path, request.value)]
                      response == select_function(S2, request, rid)
                      S3 == response.S
                  IN  IF ~response.ok THEN response
                      ELSE [ok |-> TRUE,
                            S |-> [S3 EXCEPT !.cfgFile[request.config] =
                                                 S3.cfgCache[request.config]],
                            ret |-> response.ret]

\* Database.upsert_config(request)
upsert_config(S, request, rid) ==
    IF \/ request.func = NoKey \/ request.group = NoKey
       \/ request.arg = NoKey \/ request.lang = NoKey
       \/ request.value = NoValue \/ request.config = NoKey
    THEN [ok |-> FALSE, S |-> S, ret |-> EmptyMap]
    ELSE LET path == PathOf(request)
             found == select_db(S, request)
         IN  IF path \notin DOMAIN found.ret
             \* default is None, and parse_value subscripts it
             THEN [ok |-> FALSE, S |-> found.S, ret |-> EmptyMap]
             ELSE LET default == found.ret[path]
                      parsed == parse_value(request.value, default)
                      value == IF parsed = NoneV THEN default.value ELSE parsed
                      conf == config(found.S, request.config, rid)
                      S2 == [conf.S EXCEPT !.cfgCache[request.config] =
                                                MapSet(@, path, value)]
                      response == select_function(S2, request, rid)
                      S3 == response.S
                  IN  IF ~response.ok THEN response
                      ELSE [ok |-> TRUE,
                            S |-> [S3 EXCEPT !.cfgFile[request.config] =
                                                 S3.cfgCache[request.config]],
                            ret |-> response.ret]

\* db.update(request, cond): the keys of the request set on a matching row
UpdateRow(row, request) ==
    [row EXCEPT !.name = IF request.name = NoText THEN @ ELSE request.name,
                !.help = IF request.help = NoText THEN @ ELSE request.help,
                !.option = IF request.option = NoOption THEN @ ELSE request.option,
                !.value = IF request.value = NoValue THEN @ ELSE request.value,
                !.config = IF request.config = NoKey THEN @ ELSE request.config]

\* Database.upsert_db(request)
upsert_db(S, request, rid) ==
    IF \/ request.func = NoKey \/ request.group = NoKey
       \/ request.arg = NoKey \/ request.lang = NoKey
    THEN [ok |-> FALSE, S |-> S, ret |-> EmptyMap]
    ELSE LET S1 == LoadDb(S)
             db == [i \in 1..Len(S1.memDb.rows) |->
                       IF Matches(S1.memDb.rows[i], request)
                       THEN UpdateRow(S1.memDb.rows[i], request)
                       ELSE S1.memDb.rows[i]]
             S2 == [S1 EXCEPT !.memDb.rows = db, !.fileDb = db]
         IN  select_function(S2, request, rid)

\* select_menu with the query on arg in place of group.
SelectMenuByArg(S, request) ==
    IF request.lang = NoKey
    THEN [ok |-> FALSE, S |-> S, ret |-> EmptyMap]
    ELSE select_db(S, Request(NoKey, NoKey, INFO, request.lang, NoValue, NoKey,
                              NoText, NoText, NoOption))

\* Database.select_menu(request)
select_menu(S, request) ==
    IF request.lang = NoKey
    THEN [ok |-> FALSE, S |-> S, ret |-> EmptyMap]
    ELSE select_db(S, Request(NoKey, INFO, NoKey, request.lang, NoValue, NoKey,
                              NoText, NoText, NoOption))

\* update_db on a store that persists every insert: a walk that fails leaves
\* the rows inserted so far on disk.
UpdateDbPersistsInserts(S, args, failAt) ==
    LET S1 == LoadDb(S)
        new == MergeWalk(S1.memDb.rows, args)
        S2 == [S1 EXCEPT !.fileDb = new]
        template == update_config(S2, "template", NoneV)
    IN  IF failAt = "read"
        THEN [ok |-> FALSE, S |-> S1, ret |-> EmptyMap]
        ELSE IF failAt \in {"walk", "save"}
        THEN [ok |-> FALSE,
              S |-> [S1 EXCEPT !.fileDb = SubSeq(new, 1, Len(new) - 1)],
              ret |-> EmptyMap]
        ELSE IF failAt = "template"
        THEN [ok |-> FALSE, S |-> S2, ret |-> EmptyMap]
        ELSE [ok |-> TRUE, S |-> [template.S EXCEPT !.memDb = NotLoaded],
              ret |-> EmptyMap]

\* Database.update_db(); failAt is the step that raises, or "none"
update_db(S, args, failAt) ==
    LET S1 == LoadDb(S)
        new == MergeWalk(S1.memDb.rows, args)
        S2 == [S1 EXCEPT !.fileDb = new]
        template == update_config(S2, "template", NoneV)
    IN  IF failAt \in {"read", "walk", "save"}
        THEN [ok |-> FALSE, S |-> S1, ret |-> EmptyMap]
        ELSE IF failAt = "template"
        THEN [ok |-> FALSE, S |-> S2, ret |-> EmptyMap]
        ELSE [ok |-> TRUE, S |-> [template.S EXCEPT !.memDb = NotLoaded],
              ret |-> EmptyMap]

FailPoints == {"none", "read", "walk", "save", "template"}

\* A line of the generated file: a literal line of text, the comment that
\* heads a function, or the declaration of an argument.
TextLine(text) ==
    [kind |-> "text", text |-> text, path |-> <<>>, value |-> NoneV,
     option |-> <<>>, hasOption |-> FALSE]

\* f'    # Func `{arg["func"]}`'
FuncLine(func) ==
    [kind |-> "func", text |-> func, path |-> <<>>, value |-> NoneV,
     option |-> <<>>, hasOption |-> FALSE]

\* f'    {path_to_arg(path)} = Argument({dict_to_kv(data)})': the line is kept
\* as the data it is formatted from
ArgumentLine(path, value, option) ==
    [kind |-> "decl", text |-> "", path |-> path, value |-> value,
     option |-> option, hasOption |-> option # <<>>]

\* CONFIG_IMPORT as the module defines it: the lines of the header block
CONFIG_IMPORT ==
    <<TextLine("import datetime"),
      TextLine(""),
      TextLine("from module.config.argument import Argument"),
      TextLine(""),
      TextLine("# This file was automatically generated by module/config/db.py."),
      TextLine("# Don't modify it manually."),
      TextLine(""),
      TextLine(""),
      TextLine("class GeneratedConfig:"),
      TextLine("    \"\"\""),
      TextLine("    Auto generated configuration"),
      TextLine("    \"\"\"")>>

\* '_info' in identifier: the identifiers of the model that hold '_info'
HoldsInfo(id) == id \in {INFO, "Drop_info"}

\* The keys of a stored option mapping, in order.
KeyTuple(option) == [i \in 1..Len(option) |-> option[i].k]

\* update_code without the set of visited paths.
UpdateCodeNoVisited(S) ==
    LET S1 == LoadDb(S)
        args == Search(S1.memDb.rows,
                       {r \in Documents(S1.memDb.rows) : r.lang = "zh-CN"})
        F[i \in 0..Len(args)] ==
            IF i = 0
            THEN [lines |-> S1.configImport, visited_func |-> {}]
            ELSE LET arg == args[i]
                     acc == F[i - 1]
                     headed ==
                         IF arg.func \notin acc.visited_func
                         THEN [acc EXCEPT
                                  !.lines = @ \o <<TextLine(""), FuncLine(arg.func)>>,
                                  !.visited_func = @ \cup {arg.func}]
                         ELSE acc
                 IN  IF HoldsInfo(arg.group) \/ HoldsInfo(arg.arg)
                     THEN headed
                     ELSE [headed EXCEPT
                              !.lines = Append(@, ArgumentLine(<<arg.group, arg.arg>>,
                                                   parse_value(arg.value, arg),
                                                   KeyTuple(arg.option)))]
        lines == F[Len(args)].lines
    IN  [ok |-> TRUE,
         S |-> [S1 EXCEPT !.configImport = lines, !.codeFile = lines],
         ret |-> EmptyMap]

\* Database.update_code().  `lines` is the list CONFIG_IMPORT itself: what
\* the call appends stays in it.
update_code(S) ==
    LET S1 == LoadDb(S)
        args == Search(S1.memDb.rows,
                       {r \in Documents(S1.memDb.rows) : r.lang = "zh-CN"})
        F[i \in 0..Len(args)] ==
            IF i = 0
            THEN [lines |-> S1.configImport, visited_func |-> {}, visited_path |-> {}]
            ELSE LET arg == args[i]
                     acc == F[i - 1]
                     headed ==
                         IF arg.func \notin acc.visited_func
                         THEN [acc EXCEPT
                                  !.lines = @ \o <<TextLine(""), FuncLine(arg.func)>>,
                                  !.visited_func = @ \cup {arg.func}]
                         ELSE acc
                     path == <<arg.group, arg.arg>>
                 IN  IF \/ path \in headed.visited_path
                        \/ HoldsInfo(arg.group) \/ HoldsInfo(arg.arg)
                     THEN headed
                     ELSE [headed EXCEPT
                              !.lines = Append(@, ArgumentLine(path,
                                                   parse_value(arg.value, arg),
                                                   KeyTuple(arg.option))),
                              !.visited_path = @ \cup {path}]
        lines == F[Len(args)].lines
    IN  [ok |-> TRUE,
         S |-> [S1 EXCEPT !.configImport = lines, !.codeFile = lines],
         ret |-> EmptyMap]

(***************************************************************************)
(* The inputs of the model.                                                *)
(***************************************************************************)
KeyA == <<"a">>

KeyB == <<"b">>

\* the option key 'a.b'
KeyAB == <<"a", Dot, "b">>

Leaf(func, group, arg, value, type, option) ==
    [func |-> func, group |-> group, arg |-> arg, value |-> value,
     type |-> type, option |-> option]

\* Main.Scheduler.Interval: a bare value
IntervalLeaf(value) == Leaf("Main", "Scheduler", "Interval", value, NoKey, <<>>)

\* Main.Scheduler.Mode: a detail mapping with a type and an option list
ModeLeaf(option) == Leaf("Main", "Scheduler", "Mode", StrV(KeyA), "select", option)

\* Alas.DropRecord.AzurStatsID: a bare value
StatsLeaf(value) == Leaf("Alas", "DropRecord", "AzurStatsID", value, NoKey, <<>>)

\* An argument of an earlier revision that every definition of the model dropped.
RemovedLeaf == Leaf("Main", "Scheduler", "Removed", IntV(<<"3">>), NoKey, <<>>)

\* The Schema Definitions: func -> group -> arg -> leaf, in walk order.
Definitions ==
    {<<>>,
     <<IntervalLeaf(IntV(<<"3">>))>>,
     <<IntervalLeaf(StrV(<<>>)), ModeLeaf(<<KeyA, KeyB>>)>>,
     <<IntervalLeaf(StrV(<<"0", "5">>)), ModeLeaf(<<KeyA, KeyAB>>), StatsLeaf(StrV(<<"x">>))>>,
     <<ModeLeaf(<<KeyA, KeyB>>), StatsLeaf(NoneV)>>}

\* A store left by earlier revisions: migrated from a definition with an
\* argument since removed, then labelled by a translator.
PriorStore ==
    LET base == MergeWalk(<<>>, <<IntervalLeaf(IntV(<<"5">>)), ModeLeaf(<<KeyA, KeyAB>>),
                                  RemovedLeaf>>)
    IN  [i \in 1..Len(base) |->
            IF base[i].arg = "Interval" THEN [base[i] EXCEPT !.name = <<"Custom Label">>]
            ELSE IF base[i].arg = "Mode"
            THEN [base[i] EXCEPT !.help = <<"Mode help">>,
                                 !.option = <<[k |-> KeyA, label |-> <<"Alpha">>],
                                              [k |-> KeyAB, label |-> <<"AlphaBeta">>]>>]
            ELSE base[i]]

PriorStores == {<<>>, PriorStore}

\* The raw values a caller sends to upsert_config.
RawValues == {StrV(<<"5">>), StrV(<<>>), StrV(KeyB)}

UpsertConfigRequests ==
    {Request("Main", "Scheduler", a, "zh-CN", v, "alas", NoText, NoText, NoOption) :
        a \in {"Interval", "Mode"}, v \in RawValues}

\* What a translator sends to upsert_db: a name, or the labels of the options.
UpsertDbRequests ==
    {Request("Main", "Scheduler", "Interval", "zh-CN", NoValue, "alas",
             <<"Interval name">>, NoText, NoOption),
     Request("Main", "Scheduler", "Mode", "zh-CN", NoValue, "alas", NoText, NoText,
             <<[k |-> KeyA, label |-> <<"Alpha">>], [k |-> KeyB, label |-> <<"Beta">>]>>),
     Request("Main", "Scheduler", INFO, "zh-CN", NoValue, "alas",
             <<"Scheduler name">>, NoText, NoOption),
     Request("Main", "Scheduler", "Mode", "zh-CN", NoValue, "alas", NoText,
             <<"Mode help">>,
             <<[k |-> KeyA, label |-> <<"Alpha">>],
               [k |-> KeyAB, label |-> <<"AlphaBeta">>]>>)}

(***************************************************************************)
(* The state machine: one action per call.                                 *)
(***************************************************************************)
\* What random_id() may return in a call that reads configuration `name`:
\* the call draws an identifier only when it runs update_config for a real
\* instance.
IdsFor(name, projects) ==
    IF name # "template" /\ projects THEN RandomIds
    ELSE {CHOOSE rid \in RandomIds : TRUE}

\* config(name) runs update_config
Projects(name) == name \notin DOMAIN cfgCache /\ name \notin cfgUpdated

Cur == [fileDb |-> fileDb, memDb |-> memDb, cfgFile |-> cfgFile,
        cfgCache |-> cfgCache, cfgUpdated |-> cfgUpdated,
        configImport |-> configImport, codeFile |-> codeFile]

NoRequest == Request(NoKey, NoKey, NoKey, NoKey, NoValue, NoKey, NoText, NoText, NoOption)

\* The record of a step that is no call.
NoCall(op) ==
    [op |-> op, name |-> NoKey, request |-> NoRequest, ok |-> TRUE, ret |-> EmptyMap,
     pre |-> [fileDb |-> <<>>, cfgFile |-> [n \in ConfigNames |-> EmptyMap]],
     prev |-> [op |-> "none", ok |-> TRUE]]

\* The call that ends: its state is committed, and the call is recorded with
\* the files it started from and the call before it.
Commit(op, name, request, r) ==
    /\ fileDb' = r.S.fileDb
    /\ memDb' = r.S.memDb
    /\ cfgFile' = r.S.cfgFile
    /\ cfgCache' = r.S.cfgCache
    /\ cfgUpdated' = r.S.cfgUpdated
    /\ configImport' = r.S.configImport
    /\ codeFile' = r.S.codeFile
    /\ last' = [op |-> op, name |-> name, request |-> request, ok |-> r.ok,
                ret |-> r.ret,
                pre |-> [fileDb |-> fileDb, cfgFile |-> cfgFile],
                prev |-> [op |-> last.op, ok |-> last.ok]]
    /\ nops' = nops + 1

Init ==
    /\ argsFile \in Definitions
    /\ fileDb \in PriorStores
    /\ memDb = NotLoaded
    /\ cfgFile = [n \in ConfigNames |-> EmptyMap]
    /\ cfgCache = [n \in {} |-> EmptyMap]
    /\ cfgUpdated = {}
    /\ last = NoCall("init")
    /\ migrated = FALSE
    /\ nops = 0
    /\ mOld = NotRun
    /\ mArgs = NotRun
    /\ mOut = NotRun
    /\ configImport = CONFIG_IMPORT
    /\ codeFile = <<>>
    /\ tValue = NoValue
    /\ tData = NotRun
    /\ tOut = NotRun

\* The schema definition file is edited between two calls.
EditArgs ==
    /\ nops < MaxOps
    /\ \E d \in Definitions \ {argsFile} :
        /\ argsFile' = d
        /\ last' = NoCall("edit")
    /\ nops' = nops + 1
    /\ UNCHANGED <<fileDb, memDb, cfgFile, cfgCache, cfgUpdated, migrated>>
    /\ UNCHANGED <<configImport, codeFile>>
    /\ UNCHANGED <<mergeVars, typingVars>>

UpdateDb ==
    /\ nops < MaxOps
    /\ \E failAt \in FailPoints :
        LET r == update_db(Cur, argsFile, failAt)
        IN  /\ Commit("update_db", failAt, NoRequest, r)
            /\ migrated' = (migrated \/ r.ok)
    /\ UNCHANGED <<argsFile>>
    /\ UNCHANGED <<mergeVars, typingVars>>

UpdateConfig ==
    /\ nops < MaxOps
    /\ \E name \in ConfigNames :
        \E rid \in IdsFor(name, TRUE) :
            Commit("update_config", name, NoRequest, update_config(Cur, name, rid))
    /\ UNCHANGED <<argsFile, migrated>>
    /\ UNCHANGED <<mergeVars, typingVars>>

Config ==
    /\ nops < MaxOps
    /\ \E name \in ConfigNames :
        \E rid \in IdsFor(name, Projects(name)) :
            Commit("config", name, NoRequest, config(Cur, name, rid))
    /\ UNCHANGED <<argsFile, migrated>>
    /\ UNCHANGED <<mergeVars, typingVars>>

ConfigClear ==
    /\ nops < MaxOps
    /\ \E name \in ConfigNames :
        Commit("config_clear", name, NoRequest,
               [ok |-> TRUE, S |-> config_clear(Cur, name), ret |-> EmptyMap])
    /\ UNCHANGED <<argsFile, migrated>>
    /\ UNCHANGED <<mergeVars, typingVars>>

UpsertConfig ==
    /\ nops < MaxOps
    /\ \E request \in UpsertConfigRequests :
        \E rid \in IdsFor(request.config, Projects(request.config)) :
            Commit("upsert_config", NoKey, request,
                   upsert_config(Cur, request, rid))
    /\ UNCHANGED <<argsFile, migrated>>
    /\ UNCHANGED <<mergeVars, typingVars>>

UpsertDb ==
    /\ nops < MaxOps
    /\ \E request \in UpsertDbRequests :
        \E rid \in IdsFor(request.config, Projects(request.config)) :
            Commit("upsert_db", NoKey, request, upsert_db(Cur, request, rid))
    /\ UNCHANGED <<argsFile, migrated>>
    /\ UNCHANGED <<mergeVars, typingVars>>

Next ==
    \/ EditArgs
    \/ UpdateDb
    \/ UpdateConfig
    \/ Config
    \/ ConfigClear
    \/ UpsertConfig
    \/ UpsertDb

Spec == Init /\ [][Next]_vars

(***************************************************************************)
(* The whole API: the calls of Spec and the selections, with requests that *)
(* hold every field and requests that lack one.                            *)
(***************************************************************************)
\* A request of the fields func, group, arg, lang and config.
Select(func, group, arg, lang, conf) ==
    Request(func, group, arg, lang, NoValue, conf, NoText, NoText, NoOption)

SelectDbRequests ==
    {NoRequest,
     Select("Main", NoKey, NoKey, NoKey, NoKey),
     Select("Main", "Scheduler", "Interval", "zh-CN", NoKey)}

SelectConfigRequests ==
    {Select(NoKey, NoKey, NoKey, NoKey, "alas"),
     Select("Main", NoKey, NoKey, NoKey, NoKey),
     Select("Main", NoKey, NoKey, NoKey, "alas"),
     Select("Main", NoKey, "Interval", NoKey, "alas")}

SelectFunctionRequests ==
    {Select(NoKey, NoKey, NoKey, "zh-CN", "alas"),
     Select("Main", NoKey, NoKey, NoKey, "alas"),
     Select("Main", NoKey, NoKey, "zh-CN", NoKey),
     Select("Main", NoKey, NoKey, "zh-CN", "alas")}

SelectMenuRequests ==
    {NoRequest, Select(NoKey, NoKey, NoKey, "zh-CN", NoKey)}

\* Requests to upsert_config that lack the value, the config or the arg.
PartialUpsertConfigRequests ==
    {Select("Main", "Scheduler", "Interval", "zh-CN", "alas"),
     Request("Main", "Scheduler", "Interval", "zh-CN", StrV(<<"5">>), NoKey,
             NoText, NoText, NoOption),
     Request("Main", "Scheduler", NoKey, "zh-CN", StrV(<<"5">>), "alas",
             NoText, NoText, NoOption)}

\* Requests to upsert_db that lack the config or the arg.
PartialUpsertDbRequests ==
    {Request("Main", "Scheduler", "Interval", "zh-CN", NoValue, NoKey,
             <<"Interval name">>, NoText, NoOption),
     Request("Main", "Scheduler", NoKey, "zh-CN", NoValue, "alas",
             <<"Interval name">>, NoText, NoOption)}

\* The identifier a call on a request may draw.
IdsOf(request) ==
    IF request.config = NoKey THEN IdsFor("template", FALSE)
    ELSE IdsFor(request.config, Projects(request.config))

SelectDb ==
    /\ nops < MaxOps
    /\ \E request \in SelectDbRequests :
        Commit("select_db", NoKey, request, select_db(Cur, request))
    /\ UNCHANGED <<argsFile, migrated>>
    /\ UNCHANGED <<mergeVars, typingVars>>

SelectConfig ==
    /\ nops < MaxOps
    /\ \E request \in SelectConfigRequests :
        \E rid \in IdsOf(request) :
            Commit("select_config", NoKey, request, select_config(Cur, request, rid))
    /\ UNCHANGED <<argsFile, migrated>>
    /\ UNCHANGED <<mergeVars, typingVars>>

SelectFunction ==
    /\ nops < MaxOps
    /\ \E request \in SelectFunctionRequests :
        \E rid \in IdsOf(request) :
            Commit("select_function", NoKey, request,
                   select_function(Cur, request, rid))
    /\ UNCHANGED <<argsFile, migrated>>
    /\ UNCHANGED <<mergeVars, typingVars>>

SelectMenu ==
    /\ nops < MaxOps
    /\ \E request \in SelectMenuRequests :
        Commit("select_menu", NoKey, request, select_menu(Cur, request))
    /\ UNCHANGED <<argsFile, migrated>>
    /\ UNCHANGED <<mergeVars, typingVars>>

PartialUpsertConfig ==
    /\ nops < MaxOps
    /\ \E request \in PartialUpsertConfigRequests :
        \E rid \in IdsOf(request) :
            Commit("upsert_config", NoKey, request, upsert_config(Cur, request, rid))
    /\ UNCHANGED <<argsFile, migrated>>
    /\ UNCHANGED <<mergeVars, typingVars>>

PartialUpsertDb ==
    /\ nops < MaxOps
    /\ \E request \in PartialUpsertDbRequests :
        \E rid \in IdsOf(request) :
            Commit("upsert_db", NoKey, request, upsert_db(Cur, request, rid))
    /\ UNCHANGED <<argsFile, migrated>>
    /\ UNCHANGED <<mergeVars, typingVars>>

NextApi ==
    \/ Next
    \/ SelectDb
    \/ SelectConfig
    \/ SelectFunction
    \/ SelectMenu
    \/ PartialUpsertConfig
    \/ PartialUpsertDb

SpecApi == Init /\ [][NextApi]_vars

(***************************************************************************)
(* _data_merge on its own: the prior row and the draft row are drawn from  *)
(* bounded sets, and one action applies the merge.                         *)
(***************************************************************************)
\* The draft rows _data_iter yields for a leaf Main.Scheduler.Mode: the leaf
\* row and its two info rows, which are copies of it.
MergeDrafts ==
    {[func |-> "Main", group |-> id[1], arg |-> id[2], lang |-> "zh-CN",
      value |-> v, type |-> t, option |-> o] :
        id \in {<<"Scheduler", "Mode">>, <<"Scheduler", INFO>>, <<INFO, INFO>>},
        v \in {StrV(KeyA), IntV(<<"3">>)},
        t \in {NoKey, "select"},
        o \in {<<>>, <<KeyA>>, <<KeyA, KeyB>>, <<KeyA, KeyAB>>, <<KeyAB>>}}

MergeNames == {<<>>, <<"Custom Label">>}

MergeOptions ==
    {<<>>,
     <<[k |-> KeyA, label |-> <<"Alpha">>]>>,
     <<[k |-> KeyA, label |-> <<"Alpha">>], [k |-> KeyAB, label |-> <<"AlphaBeta">>]>>,
     <<[k |-> KeyB, label |-> <<>>]>>}

\* The prior rows update_db may find for a draft: none ({}), or a row of the
\* same (func, group, arg, lang).
MergeOlds(draft) ==
    {<<>>} \cup
    {[func |-> draft.func, group |-> draft.group, arg |-> draft.arg,
      lang |-> draft.lang, name |-> n, help |-> h,
      type |-> IF draft.arg = INFO THEN "" ELSE "input",
      value |-> IF draft.arg = INFO THEN StrV(<<>>) ELSE StrV(KeyA),
      option |-> IF draft.arg = INFO THEN <<>> ELSE o,
      config |-> NoKey] :
        n \in MergeNames, h \in MergeNames, o \in MergeOptions}

InitMerge ==
    /\ argsFile = <<>>
    /\ fileDb = <<>>
    /\ memDb = NotLoaded
    /\ cfgFile = [n \in ConfigNames |-> EmptyMap]
    /\ cfgCache = [n \in {} |-> EmptyMap]
    /\ cfgUpdated = {}
    /\ last = NoCall("init")
    /\ migrated = FALSE
    /\ nops = 0
    /\ mArgs \in MergeDrafts
    /\ mOld \in MergeOlds(mArgs)
    /\ mOut = NotRun
    /\ configImport = CONFIG_IMPORT
    /\ codeFile = <<>>
    /\ tValue = NoValue
    /\ tData = NotRun
    /\ tOut = NotRun

Merge ==
    /\ ~mOut.run
    /\ mOut' = [run |-> TRUE, row |-> _data_merge(mOld, mArgs)]
    /\ UNCHANGED <<mOld, mArgs>>
    /\ UNCHANGED <<sysVars, typingVars>>

NextMerge == Merge

SpecMerge == InitMerge /\ [][NextMerge]_vars

(***************************************************************************)
(* parse_value on its own: the raw value and the row are drawn from        *)
(* bounded sets, and one action applies the typing.                        *)
(***************************************************************************)
\* The raw values: strs of every shape the chain tells apart, and values
\* that are no str.
TypingTexts ==
    {<<>>, <<"5">>, <<"0", "5">>, <<"3", Dot, "5">>, <<"3", Dot, "5", "0">>,
     <<Dot, "5">>, <<"5", Dot>>, <<Dot>>, <<"3", Dot, "5", Dot, "0">>,
     <<"abc">>, KeyA, KeyAB, <<DateSym>>, <<DateSym, TimeSym>>,
     <<DateSym, TimeSym, Dot, "5", "0", "0">>, <<DateSym, Dot, "5">>}

TypingValues ==
    {StrV(t) : t \in TypingTexts} \cup {IntV(<<"3">>), FloatV(<<"3", Dot, "5">>), NoneV}

\* The rows: an option mapping (empty, or with keys that read as a word, a
\* number or the empty string) and a default value.
TypingOptions ==
    {<<>>,
     <<[k |-> KeyA, label |-> <<"Alpha">>], [k |-> KeyAB, label |-> <<"AlphaBeta">>]>>,
     <<[k |-> <<"5">>, label |-> <<"Five">>], [k |-> <<>>, label |-> <<"Empty">>]>>}

TypingDefaults == {StrV(KeyA), IntV(<<"0">>), NoneV}

InitTyping ==
    /\ argsFile = <<>>
    /\ fileDb = <<>>
    /\ memDb = NotLoaded
    /\ cfgFile = [n \in ConfigNames |-> EmptyMap]
    /\ cfgCache = [n \in {} |-> EmptyMap]
    /\ cfgUpdated = {}
    /\ last = NoCall("init")
    /\ migrated = FALSE
    /\ nops = 0
    /\ mOld = NotRun
    /\ mArgs = NotRun
    /\ mOut = NotRun
    /\ configImport = CONFIG_IMPORT
    /\ codeFile = <<>>
    /\ tValue \in TypingValues
    /\ tData \in {[run |-> TRUE, option |-> o, value |-> d] :
                      o \in TypingOptions, d \in TypingDefaults}
    /\ tOut = NotRun

Typing ==
    /\ ~tOut.run
    /\ tOut' = [run |-> TRUE, value |-> parse_value(tValue, tData)]
    /\ UNCHANGED <<tValue, tData>>
    /\ UNCHANGED <<sysVars, mergeVars>>

NextTyping == Typing

SpecTyping == InitTyping /\ [][NextTyping]_vars

\* The raw value is rejected: the row has options and the raw value is not
\* one of their keys.
Rejected ==
    /\ tData.option # <<>>
    /\ \A i \in 1..Len(tData.option) : StrV(tData.option[i].k) # tValue

\* The numeric parse the chain tries on a str is the float parse when the
\* str holds a '.', the integer parse otherwise; it fails.
NumericFails(s) ==
    IF HasDot(s) THEN ~IsFloatText(s) ELSE ~IsIntText(s)

\* C11: value typing follows the ordered coercion chain.  A raw value that a
\* non-empty option set does not hold gives the row's default; otherwise a
\* value that is no str is returned unchanged, '' gives None, a str with a
\* '.' gives its float when the float parse succeeds, a str without '.' its
\* integer when the integer parse succeeds, a str on which the numeric parse
\* failed gives its timestamp when that parse succeeds, and any other str is
\* returned verbatim.
C11_CoercionChain ==
    tOut.run =>
        LET s == tValue.s
            out == tOut.value
        IN  /\ Rejected => out = tData.value
            /\ (~Rejected /\ tValue.t # "str") => out = tValue
            /\ (~Rejected /\ tValue.t = "str") =>
                /\ s = <<>> => out = NoneV
                /\ (s # <<>> /\ HasDot(s) /\ IsFloatText(s)) =>
                        out = FloatV(FloatNorm(s))
                /\ (s # <<>> /\ ~HasDot(s) /\ IsIntText(s)) =>
                        out = IntV(StripZeros(s))
                /\ (s # <<>> /\ NumericFails(s) /\ IsIsoText(s)) => out = TimeV(s)
                /\ (s # <<>> /\ NumericFails(s) /\ ~IsIsoText(s)) => out = tValue

\* '05' was typed against a row without options, and came out as the int 5.
C11_Witness ==
    /\ tOut.run
    /\ tData.option = <<>>
    /\ tValue = StrV(<<"0", "5">>)
    /\ tOut.value = IntV(<<"5">>)

(***************************************************************************)
(* update_code on a fixed store: the store is drawn from the stores that   *)
(* update_db builds from bounded definitions, and the code is emitted      *)
(* MaxEmits times in one process.                                          *)
(***************************************************************************)
\* The number of calls of update_code in one process.
MaxEmits == 2

\* The leaves of the definitions: two functions share Scheduler.Interval,
\* and one argument name holds '_info'.
CodeLeaves ==
    <<IntervalLeaf(StrV(<<"0", "5">>)),
      ModeLeaf(<<KeyA, KeyB>>),
      Leaf("Main", "Scheduler", "Drop_info", IntV(<<"3">>), NoKey, <<>>),
      Leaf("Alas", "Scheduler", "Interval", IntV(<<"3">>), NoKey, <<>>),
      StatsLeaf(StrV(<<"x">>))>>

\* The leaves of CodeLeaves at the indices of `keep`, in order.
Pick(keep) ==
    LET F[i \in 0..Len(CodeLeaves)] ==
            IF i = 0 THEN <<>>
            ELSE IF i \in keep THEN Append(F[i - 1], CodeLeaves[i]) ELSE F[i - 1]
    IN  F[Len(CodeLeaves)]

\* The stores: each migrated from a definition into an empty store, the
\* function Alas walked after Main or before it.
CodeStores ==
    {MergeWalk(<<>>, Pick(keep)) : keep \in SUBSET (1..Len(CodeLeaves))}
    \cup {MergeWalk(<<>>, Pick(keep \cap {4, 5}) \o Pick(keep \cap {1, 2, 3})) :
              keep \in SUBSET (1..Len(CodeLeaves))}

InitCode ==
    /\ argsFile = <<>>
    /\ fileDb \in CodeStores
    /\ memDb = NotLoaded
    /\ cfgFile = [n \in ConfigNames |-> EmptyMap]
    /\ cfgCache = [n \in {} |-> EmptyMap]
    /\ cfgUpdated = {}
    /\ last = NoCall("init")
    /\ migrated = FALSE
    /\ nops = 0
    /\ mOld = NotRun
    /\ mArgs = NotRun
    /\ mOut = NotRun
    /\ configImport = CONFIG_IMPORT
    /\ codeFile = <<>>
    /\ tValue = NoValue
    /\ tData = NotRun
    /\ tOut = NotRun

UpdateCode ==
    /\ nops < MaxEmits
    /\ Commit("update_code", NoKey, NoRequest, update_code(Cur))
    /\ UNCHANGED <<argsFile, migrated>>
    /\ UNCHANGED <<mergeVars, typingVars>>

NextCode == UpdateCode

SpecCode == InitCode /\ [][NextCode]_vars

(***************************************************************************)
(* Projection on its own: update_config run again and again over a fixed   *)
(* store and an instance file that holds raw values.                       *)
(***************************************************************************)
\* the option key '5'
KeyFive == <<"5">>

\* Main.Scheduler.Level: a select whose option keys are the strs '5' and 'a'
LevelLeaf(value) ==
    Leaf("Main", "Scheduler", "Level", value, "select", <<KeyFive, KeyA>>)

\* The stores: each migrated from a definition into an empty store.
ProjectStores ==
    {MergeWalk(<<>>, <<IntervalLeaf(StrV(<<"0", "5">>)), LevelLeaf(StrV(KeyA))>>),
     MergeWalk(<<>>, <<IntervalLeaf(IntV(<<"3">>)), LevelLeaf(StrV(KeyFive)),
                       StatsLeaf(StrV(<<"x">>))>>),
     MergeWalk(<<>>, <<ModeLeaf(<<KeyA, KeyB>>), IntervalLeaf(StrV(<<>>))>>)}

\* The raw values an instance file holds.
ProjectValues == {StrV(KeyFive), StrV(KeyA), StrV(<<"1", Dot, "5", "0">>)}

ProjectPaths ==
    {<<"Main", "Scheduler", "Interval">>, <<"Main", "Scheduler", "Level">>, StatsPath}

\* The instance files: some of the paths, each with a raw value.
ProjectFiles ==
    UNION {[paths -> ProjectValues] : paths \in SUBSET ProjectPaths}

InitProject ==
    /\ argsFile = <<>>
    /\ fileDb \in ProjectStores
    /\ memDb = NotLoaded
    /\ \E n \in ConfigNames :
          \E f \in ProjectFiles :
              cfgFile = [m \in ConfigNames |-> IF m = n THEN f ELSE EmptyMap]
    /\ cfgCache = [n \in {} |-> EmptyMap]
    /\ cfgUpdated = {}
    /\ last = NoCall("init")
    /\ migrated = FALSE
    /\ nops = 0
    /\ mOld = NotRun
    /\ mArgs = NotRun
    /\ mOut = NotRun
    /\ configImport = CONFIG_IMPORT
    /\ codeFile = <<>>
    /\ tValue = NoValue
    /\ tData = NotRun
    /\ tOut = NotRun

NextProject == UpdateConfig

SpecProject == InitProject /\ [][NextProject]_vars

\* The prior row has a key k among its options, and its label.
OldHasKey(old, k) ==
    "option" \in DOMAIN old /\ \E i \in 1..Len(old["option"]) : old["option"][i].k = k

OldLabel(old, k) ==
    old["option"][CHOOSE i \in 1..Len(old["option"]) : old["option"][i].k = k].label

\* C3: option label preservation.  For a draft row (not an info row) that
\* declares a non-empty option set, the merged row has exactly the draft's
\* option keys, and the label of every key k, whatever characters k holds, is
\* the prior row's label for k when the prior row has the key k, and k
\* otherwise.
C3_OptionLabels ==
    (mOut.run /\ mArgs.arg # INFO /\ mArgs.option # <<>>) =>
        /\ Len(mOut.row.option) = Len(mArgs.option)
        /\ \A i \in 1..Len(mArgs.option) :
            LET k == mArgs.option[i]
            IN  /\ mOut.row.option[i].k = k
                /\ mOut.row.option[i].label =
                       IF OldHasKey(mOld, k) THEN OldLabel(mOld, k) ELSE k

\* The placeholder '<func.group.arg>.<attr>'.
Placeholder(row, attr) == <<row.func, Dot, row.group, Dot, row.arg, Dot, attr>>

\* name and help are the prior row's when those are not empty, and the
\* placeholders otherwise, also when there is no prior row.
StickyMetadata ==
    \A attr \in {"name", "help"} :
        mOut.row[attr] =
            IF attr \in DOMAIN mOld /\ mOld[attr] # <<>> THEN mOld[attr]
            ELSE Placeholder(mArgs, attr)

IdentityFromDraft ==
    /\ RowKey(mOut.row) = RowKey(mArgs)
    /\ mOut.row.lang = mArgs.lang

\* C4 as stated: metadata stickiness, and type, value, lang and the identity
\* fields of every merged row are those of its draft row.
C4_AlwaysFromDraft ==
    mOut.run =>
        /\ StickyMetadata
        /\ IdentityFromDraft
        /\ mOut.row.value = mArgs.value
        /\ mArgs.type # NoKey => mOut.row.type = mArgs.type

\* C4, amended: metadata stickiness; lang and the identity fields are the
\* draft's; type and value are the draft's (type 'input' when the draft
\* declares none) on every row that is not an info row, and are cleared to ''
\* on an info row.
C4_MetadataSticky ==
    mOut.run =>
        /\ StickyMetadata
        /\ IdentityFromDraft
        /\ mArgs.arg # INFO =>
            /\ mOut.row.value = mArgs.value
            /\ mOut.row.type = IF mArgs.type = NoKey THEN "input" ELSE mArgs.type
        /\ mArgs.arg = INFO =>
            /\ mOut.row.value = StrV(<<>>)
            /\ mOut.row.type = ""

\* A definition that changed only the value of a row with a translated name
\* has been merged.
C4_Witness ==
    /\ mOut.run
    /\ mArgs.arg # INFO
    /\ "name" \in DOMAIN mOld
    /\ mOld["name"] = <<"Custom Label">>
    /\ mOld["type"] = mOut.row.type
    /\ mOld["value"] # mArgs.value
    /\ mOut.row.name = <<"Custom Label">>

(***************************************************************************)
(* The claims about the calls.                                             *)
(***************************************************************************)
\* The last call was an update_db that wrote the store it rebuilt.
StoreRebuilt == last.op = "update_db" /\ last.name \in {"none", "template"}

\* The last call was an update_db that completed.
Migrated == last.op = "update_db" /\ last.ok

KeySet(db) == {RowKey(db[i]) : i \in 1..Len(db)}

UniqueKeys(db) ==
    \A i, j \in 1..Len(db) : RowKey(db[i]) = RowKey(db[j]) => i = j

\* The non-info rows of the default language, which update_config projects.
ArgRows(db) == {db[i] : i \in {j \in 1..Len(db) : db[j].lang = "zh-CN" /\ ~IsInfoRow(db[j])}}

\* C1: migration is idempotent.  An update_db that completes right after an
\* update_db that completed, the definition being the same, leaves the
\* persisted store as the first one left it: the same rows in the same order
\* with the same fields.
C1_MigrationIdempotent ==
    (Migrated /\ last.prev.op = "update_db" /\ last.prev.ok) =>
        fileDb = last.pre.fileDb

\* Two migrations in a row of a store that holds translated labels.
C1_Witness ==
    /\ Migrated
    /\ last.prev.op = "update_db"
    /\ last.prev.ok
    /\ Len(fileDb) >= 5
    /\ \E i \in 1..Len(fileDb) : fileDb[i].name = <<"Custom Label">>
    /\ \E i \in 1..Len(fileDb) : fileDb[i].option # <<>>

\* C2: when update_db completes, the persisted template holds an entry at
\* exactly the non-info paths of the store this call persisted, with the
\* value projected from that row's default (the path of the statistics
\* identifier, which the check hook sets, left aside).
C2_TemplateReflectsNewStore ==
    Migrated =>
        LET rows == ArgRows(fileDb)
            paths == {PathOf(r) : r \in rows} \ {StatsPath}
        IN  /\ DOMAIN cfgFile["template"] \ {StatsPath} = paths
            /\ \A r \in rows :
                PathOf(r) # StatsPath =>
                    cfgFile["template"][PathOf(r)] = parse_value(r.value, r)

\* C5: row identity is unique.  Once update_db has completed, no two rows of
\* the store, persisted or cached, have the same (func, group, arg, lang),
\* whatever upsert_db and update_db calls follow.
C5_UniqueIdentity ==
    migrated => UniqueKeys(fileDb) /\ UniqueKeys(memDb.rows)

\* A translator's upsert_db on a migrated store of several rows.
C5_Witness ==
    /\ migrated
    /\ last.op = "upsert_db"
    /\ last.ok
    /\ Len(fileDb) >= 5
    /\ \E i \in 1..Len(fileDb) : fileDb[i].name = <<"Interval name">>

\* C6: info rows exist exactly once.  In the store update_db wrote, every
\* (func, group, lang) of a row has exactly one row with arg = _info, every
\* (func, lang) has exactly one row with group = _info, and every info row
\* has type, value and option cleared.
C6_InfoRowsOnce ==
    StoreRebuilt =>
        /\ \A i \in 1..Len(fileDb) :
            LET r == fileDb[i]
            IN  /\ Cardinality({j \in 1..Len(fileDb) :
                        RowKey(fileDb[j]) = <<r.func, r.group, INFO, r.lang>>}) = 1
                /\ Cardinality({j \in 1..Len(fileDb) :
                        /\ fileDb[j].func = r.func
                        /\ fileDb[j].lang = r.lang
                        /\ fileDb[j].group = INFO}) = 1
        /\ \A i \in 1..Len(fileDb) :
            IsInfoRow(fileDb[i]) =>
                /\ fileDb[i].type = ""
                /\ fileDb[i].value = StrV(<<>>)
                /\ fileDb[i].option = <<>>

\* A migration of a definition with two leaves in one group and a second
\* function.
C6_Witness ==
    /\ Migrated
    /\ Cardinality({fileDb[i].func : i \in 1..Len(fileDb)}) = 2
    /\ Cardinality({i \in 1..Len(fileDb) : fileDb[i].group = "Scheduler"}) = 3

\* The 4-tuples a definition derives: one per leaf and language, and those
\* of the leaf's group-level and function-level info rows.
ExpectedKeys(args) ==
    UNION {{<<args[i].func, args[i].group, args[i].arg, Langs[l]>>,
            <<args[i].func, args[i].group, INFO, Langs[l]>>,
            <<args[i].func, INFO, INFO, Langs[l]>>} :
                i \in 1..Len(args), l \in 1..Len(Langs)}

\* C7: migration is a full rebuild.  The store update_db wrote holds one row
\* for each 4-tuple derived from the definition and no other row; for a
\* definition of a single leaf these are one argument row and two info rows.
C7_FullRebuild ==
    StoreRebuilt =>
        /\ KeySet(fileDb) = ExpectedKeys(argsFile)
        /\ Len(fileDb) = Cardinality(ExpectedKeys(argsFile))
        /\ Len(argsFile) = 1 =>
            /\ Len(fileDb) = 3
            /\ Cardinality({i \in 1..Len(fileDb) : ~IsInfoRow(fileDb[i])}) = 1

\* A migration that dropped an argument of the prior store.
C7_Witness ==
    /\ Migrated
    /\ Len(argsFile) = 1
    /\ \E i \in 1..Len(last.pre.fileDb) : last.pre.fileDb[i].arg = "Removed"
    /\ \A i \in 1..Len(fileDb) : fileDb[i].arg # "Removed"

\* C8 as stated: an update_db that fails, at whatever step, leaves the
\* persisted store as it was.
C8_NoPartialSuccess ==
    (last.op = "update_db" /\ ~last.ok) => fileDb = last.pre.fileDb

\* C8, amended: an update_db that fails in reading the definition, in the
\* merge walk or in writing the store leaves the persisted store as it was;
\* one that fails in regenerating the template has written the store, and
\* leaves the rebuilt store, as a call that completes does.
C8_FailureBeforeWrite ==
    /\ (last.op = "update_db" /\ last.name \in {"read", "walk", "save"}) =>
            ~last.ok /\ fileDb = last.pre.fileDb
    /\ (last.op = "update_db" /\ last.name = "template") =>
            ~last.ok /\ KeySet(fileDb) = ExpectedKeys(argsFile)
    /\ (last.op = "update_db" /\ last.name = "none") =>
            last.ok /\ KeySet(fileDb) = ExpectedKeys(argsFile)

\* A migration that failed in the merge walk, of a definition that would
\* have changed the store.
C8_Witness ==
    /\ last.op = "update_db"
    /\ last.name = "walk"
    /\ ~last.ok
    /\ fileDb # <<>>
    /\ KeySet(fileDb) # ExpectedKeys(argsFile)

\* The last call was update_config(name) on an empty instance file.
ProjectedFresh ==
    /\ last.op = "update_config"
    /\ last.pre.cfgFile[last.name] = EmptyMap

\* C9 as stated: update_config(name) on an empty instance file returns and
\* persists, at every non-info schema path, exactly the row's default value.
C9_ExactDefaults ==
    ProjectedFresh =>
        \A r \in ArgRows(memDb.rows) :
            /\ PathOf(r) \in DOMAIN last.ret
            /\ last.ret[PathOf(r)] = r.value
            /\ cfgFile[last.name] = last.ret

\* What the projection makes of a schema default: a default that is not a
\* str, or that is not among the row's options, stays; '' becomes None; any
\* other str is typed as a number or a timestamp when it reads as one.
TypedDefault(r) ==
    IF r.value.t # "str" THEN r.value
    ELSE IF r.option # <<>> /\ r.value.s \notin OptionKeys(r.option) THEN r.value
    ELSE IF r.value.s = <<>> THEN NoneV
    ELSE parse_str(r.value.s)

\* C9, amended: update_config(name) on an empty instance file returns and
\* persists a mapping that holds, at every non-info schema path other than
\* that of the statistics identifier (which the check hook decides), the
\* row's default value as value typing reads it: a str default is typed, ''
\* to None and a numeric string to its number.
C9_TypedDefaults ==
    ProjectedFresh =>
        /\ cfgFile[last.name] = last.ret
        /\ \A r \in ArgRows(memDb.rows) :
            PathOf(r) # StatsPath =>
                /\ PathOf(r) \in DOMAIN last.ret
                /\ last.ret[PathOf(r)] = TypedDefault(r)

\* A projection of a fresh real instance from a store with a str default.
C9_Witness ==
    /\ ProjectedFresh
    /\ last.name = "alas"
    /\ \E r \in ArgRows(memDb.rows) :
        /\ r.value = StrV(<<"0", "5">>)
        /\ last.ret[PathOf(r)] = IntV(<<"5">>)

\* The schema row a request addresses, in the cached store.
RowAt(request) ==
    CHOOSE r \in {memDb.rows[i] : i \in 1..Len(memDb.rows)} :
        RowKey(r) = RowKey(request)

\* C10: upsert_config writes the typed value.  After an upsert_config that
\* returned, the instance configuration holds at the request's path, in the
\* cache and in the file, the value inferred from the raw value, or the
\* row's default when the raw value is not among the row's options or is
\* inferred as None; the returned view shows it under path.value.
C10_UpsertWritesTyped ==
    (last.op = "upsert_config" /\ last.ok) =>
        LET request == last.request
            path == PathOf(request)
            row == RowAt(request)
            raw == request.value
            rejected == row.option # <<>> /\ ~InOption(raw, row.option)
            inferred == IF raw.t = "str" THEN parse_str(raw.s) ELSE raw
            expected == IF rejected \/ inferred = NoneV THEN row.value ELSE inferred
        IN  /\ cfgCache[request.config][path] = expected
            /\ cfgFile[request.config][path] = expected
            /\ last.ret[path].value = expected

\* The raw value '5' was written as the integer 5.
C10_Witness ==
    /\ last.op = "upsert_config"
    /\ last.ok
    /\ last.request.value = StrV(<<"5">>)
    /\ last.request.arg = "Interval"
    /\ cfgFile["alas"][PathOf(last.request)] = IntV(<<"5">>)
    /\ last.ret[PathOf(last.request)].value = IntV(<<"5">>)

(***************************************************************************)
(* Code emission.                                                          *)
(***************************************************************************)
\* The canonical-language rows of the persisted store, in store order.
CodeRows == Search(fileDb, {r \in Documents(fileDb) : r.lang = "zh-CN"})

\* The indices of the declaration lines among `lines`.
DeclAt(lines) == {i \in 1..Len(lines) : lines[i].kind = "decl"}

\* The non-info paths func.group.arg of the canonical-language rows.
NonInfoPaths(rows) == {PathOf(rows[i]) : i \in {j \in 1..Len(rows) : ~IsInfoRow(rows[j])}}

\* C16 as stated: update_code emits one header comment per distinct func and
\* exactly one declaration line for every distinct non-info path
\* func.group.arg of the canonical-language rows, also when two functions
\* share the names of a group and an argument, and never two lines for the
\* same path.
C16_OnePerPath ==
    last.op = "update_code" =>
        /\ \A i \in 1..Len(CodeRows) :
              Cardinality({j \in 1..Len(codeFile) :
                              codeFile[j] = FuncLine(CodeRows[i].func)}) = 1
        /\ Cardinality(DeclAt(codeFile)) = Cardinality(NonInfoPaths(CodeRows))
        /\ \A i \in 1..Len(CodeRows) :
              ~IsInfoRow(CodeRows[i]) =>
                  \E j \in DeclAt(codeFile) :
                      codeFile[j].path = <<CodeRows[i].group, CodeRows[i].arg>>
        /\ \A i, j \in DeclAt(codeFile) :
              codeFile[i].path = codeFile[j].path => i = j

\* The pairs group.arg that update_code declares for a store: those of the
\* rows whose group and arg hold no '_info'.
DeclaredPairs(rows) ==
    {<<rows[i].group, rows[i].arg>> :
        i \in {j \in 1..Len(rows) : ~HoldsInfo(rows[j].group) /\ ~HoldsInfo(rows[j].arg)}}

\* The first row of a pair group.arg.
FirstRow(rows, pair) ==
    CHOOSE i \in 1..Len(rows) :
        /\ <<rows[i].group, rows[i].arg>> = pair
        /\ \A j \in 1..Len(rows) : <<rows[j].group, rows[j].arg>> = pair => i <= j

\* What one call appends for the rows: a header comment once per func, each
\* after a blank line, and one declaration per declared pair, typed from and
\* ordered as the first rows of the pairs.
EmitsOnce(added, rows) ==
    /\ \A i \in 1..Len(added) :
          /\ added[i].kind = "func" => (i > 1 /\ added[i - 1] = TextLine(""))
          /\ added[i].kind = "decl" => added[i].path \in DeclaredPairs(rows)
    /\ \A i \in 1..Len(rows) :
          Cardinality({j \in 1..Len(added) : added[j] = FuncLine(rows[i].func)}) = 1
    /\ \A pair \in DeclaredPairs(rows) :
          LET first == rows[FirstRow(rows, pair)]
          IN  /\ Cardinality({j \in DeclAt(added) : added[j].path = pair}) = 1
              /\ \E j \in DeclAt(added) :
                    added[j] = ArgumentLine(pair, TypedDefault(first),
                                            KeyTuple(first.option))
    /\ \A i, j \in DeclAt(added) :
          i < j => FirstRow(rows, added[i].path) < FirstRow(rows, added[j].path)

\* C16, amended: every call of update_code appends to the header list, in
\* store order, one header comment per distinct func of the canonical-language
\* rows and exactly one declaration line per distinct pair group.arg of the
\* rows whose group and arg hold no '_info', typed from the first row of the
\* pair; a pair that two functions share is declared once.  The file holds
\* the header list with everything appended to it so far.
C16_OnePerPair ==
    [][last'.op = "update_code" =>
          /\ codeFile' = configImport'
          /\ Len(codeFile') >= Len(configImport)
          /\ SubSeq(codeFile', 1, Len(configImport)) = configImport
          /\ EmitsOnce(SubSeq(codeFile', Len(configImport) + 1, Len(codeFile')),
                       CodeRows)]_vars

\* The code was emitted for a store in which Main and Alas share
\* Scheduler.Interval: the file declares the pair once.
C16_Witness ==
    /\ last.op = "update_code"
    /\ \E i, j \in 1..Len(CodeRows) :
          /\ CodeRows[i].func = "Main" /\ CodeRows[j].func = "Alas"
          /\ CodeRows[i].arg = "Interval" /\ CodeRows[j].arg = "Interval"
    /\ Cardinality({j \in DeclAt(codeFile) :
                       codeFile[j].path = <<"Scheduler", "Interval">>}) = 1

\* C17: code emission is deterministic in the store state.  A call of
\* update_code that follows another call in the same process, the store
\* unchanged, writes the same lines as that call.
C17_SameLinesAgain ==
    [][(last.op = "update_code" /\ last'.op = "update_code" /\ fileDb' = fileDb)
          => codeFile' = codeFile]_vars

(***************************************************************************)
(* The selection and upsert API.                                           *)
(***************************************************************************)
\* The request lacks a field the entry point needs.
Lacks(op, request) ==
    CASE op = "select_db" ->
            request.func = NoKey /\ request.group = NoKey /\ request.arg = NoKey
      [] op = "select_config" -> request.func = NoKey \/ request.config = NoKey
      [] op = "select_function" ->
            request.func = NoKey \/ request.lang = NoKey \/ request.config = NoKey
      [] op = "select_menu" -> request.lang = NoKey
      [] op = "upsert_config" ->
            \/ request.func = NoKey \/ request.group = NoKey \/ request.arg = NoKey
            \/ request.lang = NoKey \/ request.value = NoValue
            \/ request.config = NoKey
      [] op = "upsert_db" ->
            \/ request.func = NoKey \/ request.group = NoKey \/ request.arg = NoKey
            \/ request.lang = NoKey \/ request.config = NoKey
      [] OTHER -> FALSE

\* The rows a reader of the store in memory gets: the cached rows, or the
\* rows of the file when the store is yet to be loaded.
StoreRows == IF memDb.loaded THEN memDb.rows ELSE fileDb

\* C13: request validation fails fast and changes nothing.  A call of an
\* entry point with a request that lacks a field the operation needs ends in
\* an error, and the store in memory, the persisted store and every instance
\* configuration, cache and file, are as they were before the call.
C13_FailFast ==
    [][Lacks(last'.op, last'.request) =>
          /\ ~last'.ok
          /\ StoreRows' = StoreRows
          /\ fileDb' = fileDb
          /\ cfgFile' = cfgFile
          /\ cfgCache' = cfgCache]_vars

\* The rows of the function and language of the last request that are no
\* info rows, as the store holds them.
ViewedRows ==
    {r \in Documents(StoreRows) :
        /\ r.func = last.request.func
        /\ r.lang = last.request.lang
        /\ ~IsInfoRow(r)}

\* The instance configuration the last request names, as the process holds it.
LiveConfig == cfgCache[last.request.config]

\* C14 as stated: in the tree select_function returns, the value at every
\* non-info path of the function is the current value of the instance
\* configuration at that path, also when that value is None, and the other
\* fields at the path are those of the row of the store.
C14_OverlaysEveryValue ==
    (last.op = "select_function" /\ last.ok) =>
        \A r \in ViewedRows :
            /\ PathOf(r) \in DOMAIN last.ret
            /\ [last.ret[PathOf(r)] EXCEPT !.value = r.value] = r
            /\ PathOf(r) \in DOMAIN LiveConfig =>
                    last.ret[PathOf(r)].value = LiveConfig[PathOf(r)]

\* C14, amended: the value at a non-info path of the function is the value
\* of the instance configuration at that path when the configuration holds
\* one that is not None; a None value is not overlaid, and the value stays
\* the one of the row of the store.  The other fields are those of the row.
C14_OverlaysLiveValues ==
    (last.op = "select_function" /\ last.ok) =>
        \A r \in ViewedRows :
            /\ PathOf(r) \in DOMAIN last.ret
            /\ [last.ret[PathOf(r)] EXCEPT !.value = r.value] = r
            /\ last.ret[PathOf(r)].value =
                    IF /\ PathOf(r) \in DOMAIN LiveConfig
                       /\ LiveConfig[PathOf(r)] # NoneV
                    THEN LiveConfig[PathOf(r)]
                    ELSE r.value

\* A function view over an instance that holds None at one path, where the
\* row's default is '', and a number at another.
C14_Witness ==
    /\ last.op = "select_function"
    /\ last.ok
    /\ \E r \in ViewedRows :
          /\ PathOf(r) \in DOMAIN LiveConfig
          /\ LiveConfig[PathOf(r)] = NoneV
          /\ last.ret[PathOf(r)].value = StrV(<<>>)
    /\ \E r \in ViewedRows :
          /\ PathOf(r) \in DOMAIN LiveConfig
          /\ LiveConfig[PathOf(r)] # r.value
          /\ last.ret[PathOf(r)].value = LiveConfig[PathOf(r)]

\* The rows of the language of the last request.
LangRows == {r \in Documents(StoreRows) : r.lang = last.request.lang}

\* C15 as stated: the response of select_menu holds every info row of the
\* language, the rows whose arg or group is _info, function-level and
\* group-level alike, and no other row.
C15_AllInfoRows ==
    (last.op = "select_menu" /\ last.ok) =>
        /\ \A r \in LangRows :
              IsInfoRow(r) => (PathOf(r) \in DOMAIN last.ret /\ last.ret[PathOf(r)] = r)
        /\ \A p \in DOMAIN last.ret : IsInfoRow(last.ret[p])

\* C15, amended: the response of select_menu holds exactly the rows of the
\* language whose group is _info, the function-level info rows; a group-level
\* info row (arg = _info under a group) is not in it.
C15_FunctionInfoRows ==
    (last.op = "select_menu" /\ last.ok) =>
        /\ DOMAIN last.ret = {PathOf(r) : r \in {x \in LangRows : x.group = INFO}}
        /\ \A r \in LangRows :
              r.group = INFO => last.ret[PathOf(r)] = r

\* A menu over a store that holds a function-level and a group-level info row.
C15_Witness ==
    /\ last.op = "select_menu"
    /\ last.ok
    /\ \E r \in LangRows : r.group = INFO /\ PathOf(r) \in DOMAIN last.ret
    /\ \E r \in LangRows : r.group # INFO /\ r.arg = INFO

(***************************************************************************)
(* Caches and migrations.                                                  *)
(***************************************************************************)
\* Every copy in memory that a reader is served equals its backing file: the
\* cached store, and every cached instance configuration.
Fresh ==
    /\ memDb.loaded => memDb.rows = fileDb
    /\ \A n \in DOMAIN cfgCache : cfgCache[n] = cfgFile[n]

\* The operations that keep the caches.
CachingOps == {"config", "config_clear", "update_db", "upsert_config", "upsert_db"}

\* C12: caches never serve stale data.  A call of config, config_clear,
\* update_db, upsert_config or upsert_db that completes from a state in which
\* every cached copy equals its file leaves every cached copy, the template
\* included, equal to its file.
C12_NoStaleCache ==
    [][(Fresh /\ last'.op \in CachingOps /\ last'.ok) => Fresh']_vars

\* The row of a store that a request addresses by its 4-tuple, as a set.
Addressed(rows, request) ==
    {r \in Documents(rows) :
        RowKey(r) = <<request.func, request.group, request.arg, request.lang>>}

\* The label of the key k in a stored option mapping that holds k.
LabelOf(option, k) ==
    option[CHOOSE i \in 1..Len(option) : option[i].k = k].label

\* C18: translator edits survive revisions.  When upsert_db has set the
\* name, the help or the option labels of an existing row and update_db then
\* rebuilds the store from a definition that still holds the path, the row
\* carries the name and the help that upsert_db wrote, and the label that
\* upsert_db wrote for every option key the definition still declares.
\* upsert_db itself changes no row but the one its 4-tuple matches and leaves
\* the persisted store equal to the store in memory.
C18_EditsSurvive ==
    [][/\ (/\ last.op = "upsert_db" /\ last.ok
           /\ last'.op = "update_db" /\ last'.ok) =>
              LET q == last.request
              IN  \A old \in Addressed(fileDb, q) :
                      \A new \in Addressed(fileDb', q) :
                          /\ q.name # NoText => new.name = q.name
                          /\ q.help # NoText => new.help = q.help
                          /\ q.option # NoOption =>
                                 \A k \in OptionKeys(q.option) \cap OptionKeys(new.option) :
                                     LabelOf(new.option, k) = LabelOf(q.option, k)
       /\ (Fresh /\ last'.op = "upsert_db" /\ last'.ok) =>
              /\ memDb'.loaded /\ memDb'.rows = fileDb'
              /\ Len(fileDb') = Len(fileDb)
              /\ \A i \in 1..Len(fileDb) :
                    fileDb'[i] # fileDb[i] =>
                        fileDb'[i] \in Addressed(fileDb', last'.request)]_vars

\* C19: instance configurations follow the schema after a migration.  The
\* config(name) that follows a completed update_db returns, for every name,
\* a mapping that has an entry at every non-info path of the persisted
\* store.
C19_FollowsSchema ==
    [][(/\ last.op = "update_db" /\ last.ok
        /\ last'.op = "config" /\ last'.ok) =>
           NonInfoPaths(fileDb') \subseteq DOMAIN last'.ret]_vars

\* C20: projection is idempotent.  For a fixed store and any persisted
\* instance configuration, the second of two update_config(name) in a row
\* returns the mapping the first returned and leaves the file the first
\* left: no value the first run accepted and typed is rejected or retyped,
\* and the statistics identifier is kept.
C20_ProjectionIdempotent ==
    [][(/\ last.op = "update_config" /\ last.ok
        /\ last'.op = "update_config" /\ last'.ok
        /\ last'.name = last.name /\ fileDb' = fileDb) =>
           /\ last'.ret = last.ret
           /\ cfgFile'[last.name] = cfgFile[last.name]]_vars

====
